---- MODULE Spec2Model ----
(***************************************************************************)
(* A model of app.py, the PDF structure analyzer: extract_pdf_structure    *)
(* (metadata, header/footer zone rule over the sampled pages, paragraph    *)
(* filter), detect_toc, detect_sections, and the part of main that reads   *)
(* the returned result.                                                    *)
(*                                                                         *)
(* A Python str is a sequence of one-character strings; the en dash, which *)
(* cannot be written in a module, is the token "endash".  The regular      *)
(* expressions are operators that compute what re.search computes on such  *)
(* a sequence.  A float coordinate is an integer, and the comparison with  *)
(* page.height * 0.15 is made on both sides scaled by 100.                 *)
(***************************************************************************)
EXTENDS Integers, Sequences, FiniteSets, TLC

VARIABLES
    pc,               \* the position of the program
    pdf,              \* the uploaded document: [metadata, pages]
    results,          \* the dict extract_pdf_structure builds and returns
    i,                \* the page index of the sampling loop (0-based)
    layout,           \* the blocks model.detect returned for page i
    j,                \* how many blocks of layout have been classified
    doc,              \* doc.sents: the sentence texts, in document order
    n,                \* how many sentences the running loop has consumed
    toc_items,        \* detect_toc's local list
    sections,         \* detect_sections' local list
    current_section,  \* detect_sections' local: None or a dict
    errors,           \* how many times st.error was called
    min_len,          \* the slider's value in main
    filtered          \* the paragraphs main shows

vars == <<pc, pdf, results, i, layout, j, doc, n, toc_items, sections,
          current_section, errors, min_len, filtered>>

----------------------------------------------------------------------------
(* Characters and strings *)

UpperChars == <<"A", "B", "C", "D", "E", "F", "G", "H", "I", "J", "K", "L", "M",
                "N", "O", "P", "Q", "R", "S", "T", "U", "V", "W", "X", "Y", "Z">>

LowerChars == <<"a", "b", "c", "d", "e", "f", "g", "h", "i", "j", "k", "l", "m",
                "n", "o", "p", "q", "r", "s", "t", "u", "v", "w", "x", "y", "z">>

Range(f) == {f[k] : k \in DOMAIN f}

\* \s
Space == {" ", "\n", "\t"}

\* \d
Digit == {"0", "1", "2", "3", "4", "5", "6", "7", "8", "9"}

\* [A-Z]
Upper == Range(UpperChars)

\* [a-z]
LowerAZ == Range(LowerChars)

\* [ivx\d]
RomanOrDigit == {"i", "v", "x"} \cup Digit

\* [ivx]
Roman == {"i", "v", "x"}

\* [–-]
Dash == {"endash", "-"}

\* [A-Z0-9\s]
UpperDigitSpace == Upper \cup Digit \cup Space

\* str.lower() on one character
LowerChar(c) ==
    IF c \in Upper
    THEN LowerChars[CHOOSE k \in DOMAIN UpperChars : UpperChars[k] = c]
    ELSE c

\* str.lower()
Lower(s) == [k \in 1..Len(s) |-> LowerChar(s[k])]

\* str.strip(): the text without its leading and trailing whitespace
Strip(s) ==
    IF \A k \in 1..Len(s) : s[k] \in Space
    THEN <<>>
    ELSE LET first == CHOOSE a \in 1..Len(s) :
                          s[a] \notin Space /\ \A k \in 1..(a - 1) : s[k] \in Space
             last == CHOOSE b \in 1..Len(s) :
                          s[b] \notin Space /\ \A k \in (b + 1)..Len(s) : s[k] \in Space
         IN  SubSeq(s, first, last)

----------------------------------------------------------------------------
(* Regular expressions, as re.search evaluates them *)

\* the position after the longest run of characters of class that starts at p
\* (a greedy X* from p)
SkipWhile(s, p, class) ==
    CHOOSE q \in p..(Len(s) + 1) :
        /\ \A k \in p..(q - 1) : s[k] \in class
        /\ q = Len(s) + 1 \/ s[q] \notin class

\* the literal w matches at position p
MatchAt(s, p, w) ==
    /\ p + Len(w) - 1 <= Len(s)
    /\ \A k \in 1..Len(w) : s[p + k - 1] = w[k]

\* re.search of a literal: it matches at some position
Contains(s, w) == \E p \in 1..Len(s) : MatchAt(s, p, w)

\* $ at position p: the end of the string, or just before a newline that ends it
AtEnd(s, p) == p = Len(s) + 1 \/ (p = Len(s) /\ s[p] = "\n")

\* (chapter|section|part|appendix)
Keywords == { <<"c", "h", "a", "p", "t", "e", "r">>,
              <<"s", "e", "c", "t", "i", "o", "n">>,
              <<"p", "a", "r", "t">>,
              <<"a", "p", "p", "e", "n", "d", "i", "x">> }

\* r'^\s*(chapter|section|part|appendix)\s+[ivx\d]+'
ReKeywordNumeral(s) ==
    LET p == SkipWhile(s, 1, Space)
    IN  \E w \in Keywords :
            /\ MatchAt(s, p, w)
            /\ LET q == p + Len(w)
                   r == SkipWhile(s, q, Space)
               IN  r > q /\ r <= Len(s) /\ s[r] \in RomanOrDigit

\* (\.\d+)* from position p: the position after the last group
RECURSIVE SkipDotGroups(_, _)
SkipDotGroups(s, p) ==
    IF p + 1 <= Len(s) /\ s[p] = "." /\ s[p + 1] \in Digit
    THEN SkipDotGroups(s, SkipWhile(s, p + 1, Digit))
    ELSE p

\* r'^\s*\d+(\.\d+)*\s+'
ReDottedDecimal(s) ==
    LET p == SkipWhile(s, 1, Space)
        q == SkipWhile(s, p, Digit)
        r == SkipDotGroups(s, q)
    IN  q > p /\ r <= Len(s) /\ s[r] \in Space

\* r'^\s*[ivx]+(\s+[a-z])?\s*[–-]'
ReRomanDash(s) ==
    LET p == SkipWhile(s, 1, Space)
        q == SkipWhile(s, p, Roman)
        r == SkipWhile(s, q, Space)
        t == SkipWhile(s, r + 1, Space)
    IN  /\ q > p
        /\ \/ r <= Len(s) /\ s[r] \in Dash
           \/ /\ r > q
              /\ r <= Len(s)
              /\ s[r] \in LowerAZ
              /\ t <= Len(s)
              /\ s[t] \in Dash

\* r'\.{3,}\s*\d+$'
ReDotLeader(s) ==
    \E a \in 1..Len(s) :
        /\ MatchAt(s, a, <<".", ".", ".">>)
        /\ LET b == SkipWhile(s, a, {"."})
               c == SkipWhile(s, b, Space)
               d == SkipWhile(s, c, Digit)
           IN  d > c /\ AtEnd(s, d)

\* r'^\s*[A-Z][A-Z0-9\s]+\s*$'
ReUpperLine(s) ==
    LET p == SkipWhile(s, 1, Space)
    IN  /\ p + 1 <= Len(s)
        /\ s[p] \in Upper
        /\ \A k \in (p + 1)..Len(s) : s[k] \in UpperDigitSpace

\* any(re.search(pattern, text) for pattern in toc_patterns)
TocPatterns(s) ==
    \/ Contains(s, <<"c", "o", "n", "t", "e", "n", "t", "s">>)
    \/ Contains(s, <<"t", "a", "b", "l", "e", " ", "o", "f", " ",
                     "c", "o", "n", "t", "e", "n", "t", "s">>)
    \/ Contains(s, <<"c", "h", "a", "p", "t", "e", "r">>)
    \/ Contains(s, <<"s", "e", "c", "t", "i", "o", "n">>)
    \/ ReKeywordNumeral(s)
    \/ ReDottedDecimal(s)
    \/ ReRomanDash(s)
    \/ ReDotLeader(s)

\* any(re.search(pattern, text) for pattern in heading_patterns)
HeadingPatterns(s) ==
    \/ ReKeywordNumeral(s)
    \/ ReDottedDecimal(s)
    \/ ReUpperLine(s)

----------------------------------------------------------------------------
(* Python values *)

\* None
None == [type |-> "NoneType"]

\* {} : a dict is a function from its keys
EmptyDict == [k \in {} |-> None]

\* set()
PySet(S) == [type |-> "set", items |-> S]

\* a list
PyList(q) == [type |-> "list", items |-> q]

\* dict.get(key, default)
Get(d, key, default) == IF key \in DOMAIN d THEN d[key] ELSE default

\* list(S) of a collection that kept a text per block: one text is repeated
ListsWithRepeats(S) ==
    IF S = {}
    THEN {<<>>}
    ELSE {q \in [1..(Cardinality(S) + 1) -> S] : {q[k] : k \in DOMAIN q} = S}

\* the lists list(S) can return: a str hashes differently from one process to
\* the next, so the iteration order of a set of str is any order
ListsOf(S) == {q \in [1..Cardinality(S) -> S] : Range(q) = S}

\* min(a, b)
Min(a, b) == IF a < b THEN a ELSE b

----------------------------------------------------------------------------
(* extract_pdf_structure *)

\* results = {...}, as constructed
InitialResults ==
    [metadata |-> EmptyDict, headers |-> PySet({}), footers |-> PySet({}),
     paragraphs |-> <<>>, toc |-> <<>>, sections |-> <<>>]

\* results['metadata'] = {...}
Metadata(p) ==
    [pages |-> Len(p.pages),
     author |-> Get(p.metadata, "Author", "Unknown"),
     title |-> Get(p.metadata, "Title", "Untitled")]

\* sample_pages without the cap of 5
SamplePagesAll(p) == Len(p.pages)

\* sample_pages = min(5, len(pdf.pages))
SamplePages(p) == Min(5, Len(p.pages))

\* header_zone = page.height * 0.15, times 100
HeaderZone(page) == page.height * 15

\* footer_zone = page.height * 0.85, times 100
FooterZone(page) == page.height * 85

\* the zone rule with a second `if` in the place of `elif`
ZoneRuleIndependent(res, block, page) ==
    LET h == IF block.type = "Title" /\ block.y_1 * 100 < HeaderZone(page)
             THEN {block.text} ELSE {}
        f == IF block.y_2 * 100 > FooterZone(page) THEN {block.text} ELSE {}
    IN  [res EXCEPT !.headers.items = @ \cup h, !.footers.items = @ \cup f]

\* the body of `for block in layout`, on one block
ZoneRule(res, block, page) ==
    IF block.type = "Title" /\ block.y_1 * 100 < HeaderZone(page)
    THEN [res EXCEPT !.headers.items = @ \cup {block.text}]
    ELSE IF block.y_2 * 100 > FooterZone(page)
         THEN [res EXCEPT !.footers.items = @ \cup {block.text}]
         ELSE res

\* the sentences of "\n".join(page.extract_text() for page in pdf.pages if
\* page.extract_text()), as nlp segments them: each page's text is held as the
\* sentences it is segmented into
RECURSIVE Sents(_)
Sents(pages) ==
    IF pages = <<>>
    THEN <<>>
    ELSE (IF Head(pages).text # <<>> THEN Head(pages).text ELSE <<>>)
         \o Sents(Tail(pages))

\* the paragraph filter with >= 20 in the place of > 20
RECURSIVE ParagraphsFrom20(_)
ParagraphsFrom20(d) ==
    IF d = <<>>
    THEN <<>>
    ELSE (IF Len(Strip(Head(d))) >= 20 THEN <<Strip(Head(d))>> ELSE <<>>)
         \o ParagraphsFrom20(Tail(d))

\* [sent.text.strip() for sent in doc.sents if len(sent.text.strip()) > 20]
RECURSIVE Paragraphs(_)
Paragraphs(d) ==
    IF d = <<>>
    THEN <<>>
    ELSE (IF Len(Strip(Head(d))) > 20 THEN <<Strip(Head(d))>> ELSE <<>>)
         \o Paragraphs(Tail(d))

\* with pdfplumber.open(pdf_path) as pdf
Open ==
    /\ pc = "open"
    /\ pc' = "metadata"
    /\ UNCHANGED <<pdf, results, i, layout, j, doc, n, toc_items, sections,
                   current_section, errors, min_len, filtered>>

\* results['metadata'] = {...}
ReadMetadata ==
    /\ pc = "metadata"
    /\ results' = [results EXCEPT !.metadata = Metadata(pdf)]
    /\ pc' = "model"
    /\ UNCHANGED <<pdf, i, layout, j, doc, n, toc_items, sections,
                   current_section, errors, min_len, filtered>>

\* model = lp.Detectron2LayoutModel(...), and the entry of the page loop
LoadModel ==
    /\ pc = "model"
    /\ i' = 0
    /\ pc' = "page_loop"
    /\ UNCHANGED <<pdf, results, layout, j, doc, n, toc_items, sections,
                   current_section, errors, min_len, filtered>>

\* for i in range(sample_pages): layout = model.detect(im)
DetectPage ==
    /\ pc = "page_loop"
    /\ i < SamplePages(pdf)
    /\ layout' = pdf.pages[i + 1].layout
    /\ j' = 0
    /\ pc' = "blocks"
    /\ UNCHANGED <<pdf, results, i, doc, n, toc_items, sections,
                   current_section, errors, min_len, filtered>>

\* for block in layout: one block
ClassifyBlock ==
    /\ pc = "blocks"
    /\ j < Len(layout)
    /\ results' = ZoneRule(results, layout[j + 1], pdf.pages[i + 1])
    /\ j' = j + 1
    /\ UNCHANGED <<pc, pdf, i, layout, doc, n, toc_items, sections,
                   current_section, errors, min_len, filtered>>

\* the blocks of page i are exhausted: the next i
NextPage ==
    /\ pc = "blocks"
    /\ j = Len(layout)
    /\ i' = i + 1
    /\ pc' = "page_loop"
    /\ UNCHANGED <<pdf, results, layout, j, doc, n, toc_items, sections,
                   current_section, errors, min_len, filtered>>

\* results['headers'] = list(results['headers']), and the footers
ConvertSets ==
    /\ pc = "page_loop"
    /\ i >= SamplePages(pdf)
    /\ \E h \in ListsOf(results.headers.items), f \in ListsOf(results.footers.items) :
           results' = [results EXCEPT !.headers = PyList(h), !.footers = PyList(f)]
    /\ pc' = "text"
    /\ UNCHANGED <<pdf, i, layout, j, doc, n, toc_items, sections,
                   current_section, errors, min_len, filtered>>

\* full_text = ...; doc = nlp(full_text)
ExtractText ==
    /\ pc = "text"
    /\ doc' = Sents(pdf.pages)
    /\ pc' = "paragraphs"
    /\ UNCHANGED <<pdf, results, i, layout, j, n, toc_items, sections,
                   current_section, errors, min_len, filtered>>

\* results['paragraphs'] = [...], and the call of detect_toc
ExtractParagraphs ==
    /\ pc = "paragraphs"
    /\ results' = [results EXCEPT !.paragraphs = Paragraphs(doc)]
    /\ toc_items' = <<>>
    /\ n' = 0
    /\ pc' = "detect_toc"
    /\ UNCHANGED <<pdf, i, layout, j, doc, sections, current_section, errors,
                   min_len, filtered>>

\* an except clause that reports the failure and lets the analysis go on with
\* the text stages
ExceptSwallow ==
    /\ \/ pc \in {"open", "metadata", "model", "text"}
       \/ pc = "page_loop" /\ i < SamplePages(pdf)
    /\ errors' = errors + 1
    /\ pc' = "paragraphs"
    /\ UNCHANGED <<pdf, results, i, layout, j, doc, n, toc_items, sections,
                   current_section, min_len, filtered>>

\* except Exception as e: st.error(...); return results.  The calls that can
\* raise are pdfplumber.open, pdf.pages and pdf.metadata, the layout model's
\* construction, page.to_image and model.detect, page.extract_text and nlp
Except ==
    /\ \/ pc \in {"open", "metadata", "model", "text"}
       \/ pc = "page_loop" /\ i < SamplePages(pdf)
    /\ errors' = errors + 1
    /\ pc' = "returned"
    /\ UNCHANGED <<pdf, results, i, layout, j, doc, n, toc_items, sections,
                   current_section, min_len, filtered>>

----------------------------------------------------------------------------
(* detect_toc *)

\* the loop body of detect_toc without .lower()
TocBodyOriginalCase(items, sent) ==
    IF TocPatterns(sent) THEN Append(items, sent) ELSE items

\* the body of detect_toc's loop, on one sentence
TocBody(items, sent) ==
    IF TocPatterns(Lower(sent)) THEN Append(items, sent) ELSE items

\* for sent in doc.sents: one sentence
TocStep ==
    /\ pc = "detect_toc"
    /\ n < Len(doc)
    /\ toc_items' = TocBody(toc_items, doc[n + 1])
    /\ n' = n + 1
    /\ UNCHANGED <<pc, pdf, results, i, layout, j, doc, sections,
                   current_section, errors, min_len, filtered>>

\* return toc_items; results['toc'] = ...; and the call of detect_sections
TocReturn ==
    /\ pc = "detect_toc"
    /\ n = Len(doc)
    /\ results' = [results EXCEPT !.toc = toc_items]
    /\ sections' = <<>>
    /\ current_section' = None
    /\ n' = 0
    /\ pc' = "detect_sections"
    /\ UNCHANGED <<pdf, i, layout, j, doc, toc_items, errors, min_len, filtered>>

----------------------------------------------------------------------------
(* detect_sections *)

\* the loop body of detect_sections with `if current_section` in the place of
\* `elif current_section`: a heading is appended to the content of its section
SectionBodyHeadingInContent(secs, cur, sent) ==
    LET opened == IF HeadingPatterns(sent)
                  THEN [heading |-> sent, content |-> <<>>]
                  ELSE cur
    IN  [sections |-> IF HeadingPatterns(sent) /\ cur # None
                      THEN Append(secs, cur) ELSE secs,
         current_section |-> IF opened # None
                             THEN [opened EXCEPT !.content = Append(@, sent)]
                             ELSE opened]

\* the body of detect_sections' loop, on one sentence: the new sections and
\* current_section
SectionBody(secs, cur, sent) ==
    IF HeadingPatterns(sent)
    THEN [sections |-> IF cur # None THEN Append(secs, cur) ELSE secs,
          current_section |-> [heading |-> sent, content |-> <<>>]]
    ELSE IF cur # None
         THEN [sections |-> secs,
               current_section |-> [cur EXCEPT !.content = Append(@, sent)]]
         ELSE [sections |-> secs, current_section |-> cur]

\* the end of detect_sections without the append of the open section
SectionsEndForgetOpen(secs, cur) == secs

\* if current_section: sections.append(current_section); return sections
SectionsEnd(secs, cur) == IF cur # None THEN Append(secs, cur) ELSE secs

\* for sent in doc.sents: one sentence
SectionStep ==
    /\ pc = "detect_sections"
    /\ n < Len(doc)
    /\ LET r == SectionBody(sections, current_section, doc[n + 1])
       IN  /\ sections' = r.sections
           /\ current_section' = r.current_section
    /\ n' = n + 1
    /\ UNCHANGED <<pc, pdf, results, i, layout, j, doc, toc_items, errors,
                   min_len, filtered>>

\* the end of detect_sections; results['sections'] = ...; return results
SectionsReturn ==
    /\ pc = "detect_sections"
    /\ n = Len(doc)
    /\ sections' = SectionsEnd(sections, current_section)
    /\ results' = [results EXCEPT !.sections = sections']
    /\ pc' = "returned"
    /\ UNCHANGED <<pdf, i, layout, j, doc, n, toc_items, current_section,
                   errors, min_len, filtered>>

----------------------------------------------------------------------------
(* main *)

\* the values taken for the slider st.slider(..., 20, 200, 50): its minimum,
\* the two values after it, its default and its maximum
SliderValues == {20, 21, 22, 50, 200}

\* [p for p in analysis['paragraphs'] if len(p) >= min_len]
RECURSIVE Filtered(_, _)
Filtered(ps, m) ==
    IF ps = <<>>
    THEN <<>>
    ELSE (IF Len(Head(ps)) >= m THEN <<Head(ps)>> ELSE <<>>) \o Filtered(Tail(ps), m)

\* the keys main reads of analysis['metadata']
MetadataKeys == {"pages", "title", "author"}

\* the tabs of main, when analysis['metadata'] has the keys tab1 reads
Display ==
    /\ pc = "returned"
    /\ MetadataKeys \subseteq DOMAIN results.metadata
    /\ \E m \in SliderValues :
           /\ min_len' = m
           /\ filtered' = Filtered(results.paragraphs, m)
    /\ pc' = "displayed"
    /\ UNCHANGED <<pdf, results, i, layout, j, doc, n, toc_items, sections,
                   current_section, errors>>

\* analysis['metadata']['pages'] on a dict without the key: main ends in KeyError
DisplayKeyError ==
    /\ pc = "returned"
    /\ ~(MetadataKeys \subseteq DOMAIN results.metadata)
    /\ pc' = "KeyError"
    /\ UNCHANGED <<pdf, results, i, layout, j, doc, n, toc_items, sections,
                   current_section, errors, min_len, filtered>>

----------------------------------------------------------------------------
(* The documents analysed *)

\* "Chapter 1 Intro"
ChapterOneIntro ==
    <<"C", "h", "a", "p", "t", "e", "r", " ", "1", " ", "I", "n", "t", "r",
      "o">>

\* "This is body text."
BodyText ==
    <<"T", "h", "i", "s", " ", "i", "s", " ", "b", "o", "d", "y", " ", "t",
      "e", "x", "t", ".">>

\* "Chapter 2 Methods"
ChapterTwoMethods ==
    <<"C", "h", "a", "p", "t", "e", "r", " ", "2", " ", "M", "e", "t", "h",
      "o", "d", "s">>

\* "More text."
MoreText ==
    <<"M", "o", "r", "e", " ", "t", "e", "x", "t", ".">>

\* " TABLE OF CONTENTS 12" and a newline
UpperContents ==
    <<" ", "T", "A", "B", "L", "E", " ", "O", "F", " ", "C", "O", "N", "T",
      "E", "N", "T", "S", " ", "1", "2", "\n">>

\* "1.2 Scope of the work"
NumberedScope ==
    <<"1", ".", "2", " ", "S", "c", "o", "p", "e", " ", "o", "f", " ", "t",
      "h", "e", " ", "w", "o", "r", "k">>

\* "....................... 42"
DotLeader ==
    <<".", ".", ".", ".", ".", ".", ".", ".", ".", ".", ".", ".", ".", ".",
      ".", ".", ".", ".", ".", ".", ".", ".", ".", " ", "4", "2">>

\* "part iv"
PartFour ==
    <<"p", "a", "r", "t", " ", "i", "v">>

\* the sentences the text documents are made of
TextPool == {ChapterOneIntro, BodyText, UpperContents, NumberedScope, DotLeader, PartFour}

\* the sentences of the specification's scenario A
ScenarioA == <<ChapterOneIntro, BodyText, ChapterTwoMethods, MoreText>>

\* the longest text document, in sentences
MaxLen == 4

\* the longest document of the pipeline, in pages
MaxPages == 6

\* the most blocks on the page of a layout document
MaxBlocks == 2

\* the sequences over S of length at most k
BoundedSeq(S, k) == UNION {[1..m -> S] : m \in 0..k}

\* the Info dictionaries of the documents
MetadataChoices ==
    {EmptyDict, [Author |-> "Ann"], [Author |-> "Ann", Title |-> "Annual Report"]}

\* a page of height 1000 with a title at its top and a page number at its
\* bottom (the specification's scenario D), and one sentence of text
PageA ==
    [height |-> 1000,
     layout |-> << [type |-> "Title", y_1 |-> 50, y_2 |-> 90, text |-> "Annual Report"],
                   [type |-> "Text", y_1 |-> 900, y_2 |-> 950, text |-> "Page 1"] >>,
     text |-> <<NumberedScope>>]

\* a page of height 500 without text: a title below its header zone (that
\* would be in the header zone of a page of height 1000), a title that spans
\* the header and the footer zone, and a title in the footer zone
PageB ==
    [height |-> 500,
     layout |-> << [type |-> "Title", y_1 |-> 100, y_2 |-> 120, text |-> "Summary"],
                   [type |-> "Title", y_1 |-> 50, y_2 |-> 480, text |-> "Appendix"],
                   [type |-> "Title", y_1 |-> 300, y_2 |-> 450, text |-> "Annual Report"] >>,
     text |-> <<>>]

PageKinds == {PageA, PageB}

\* the blocks of the layout documents: on a page of height 20 the header zone
\* ends at 3 and the footer zone starts at 17, on a page of height 40 at 6 and 34
BlockPool ==
    [type : {"Title", "Text", "Figure"}, y_1 : {2, 3}, y_2 : {17, 18},
     text : {"a", "b"}]

ZoneHeights == {20, 40}

\* the values of the variables no step has assigned yet
Unassigned ==
    /\ layout = <<>>
    /\ j = 0
    /\ n = 0
    /\ toc_items = <<>>
    /\ sections = <<>>
    /\ current_section = None
    /\ errors = 0
    /\ min_len = 0
    /\ filtered = <<>>

\* the call of extract_pdf_structure on a document of PageKinds pages
Init ==
    /\ pdf \in [metadata : MetadataChoices,
                pages : BoundedSeq(PageKinds, MaxPages) \ {<<>>}]
    /\ pc = "open"
    /\ results = InitialResults
    /\ i = 0
    /\ doc = <<>>
    /\ Unassigned

\* extract_pdf_structure at its page loop, on a one-page document of blocks
InitZone ==
    /\ \E h \in ZoneHeights, l \in BoundedSeq(BlockPool, MaxBlocks) :
           pdf = [metadata |-> EmptyDict,
                  pages |-> << [height |-> h, layout |-> l, text |-> <<>>] >>]
    /\ pc = "page_loop"
    /\ results = [InitialResults EXCEPT !.metadata = Metadata(pdf)]
    /\ i = 0
    /\ doc = <<>>
    /\ Unassigned

\* extract_pdf_structure after nlp(full_text), on a one-page document without
\* blocks whose text is the sentences d
InitText ==
    /\ \E d \in BoundedSeq(TextPool, MaxLen) \cup {ScenarioA} :
           /\ pdf = [metadata |-> EmptyDict,
                     pages |-> << [height |-> 1000, layout |-> <<>>, text |-> d] >>]
           /\ doc = d
    /\ pc = "paragraphs"
    /\ results = [InitialResults EXCEPT !.metadata = Metadata(pdf),
                                        !.headers = PyList(<<>>),
                                        !.footers = PyList(<<>>)]
    /\ i = 1
    /\ Unassigned

Next ==
    \/ Open
    \/ ReadMetadata
    \/ LoadModel
    \/ DetectPage
    \/ ClassifyBlock
    \/ NextPage
    \/ ConvertSets
    \/ ExtractText
    \/ ExtractParagraphs
    \/ TocStep
    \/ TocReturn
    \/ SectionStep
    \/ SectionsReturn
    \/ Except
    \/ Display
    \/ DisplayKeyError

NextZone ==
    \/ DetectPage
    \/ ClassifyBlock
    \/ NextPage
    \/ ConvertSets

NextText ==
    \/ ExtractParagraphs
    \/ TocStep
    \/ TocReturn
    \/ SectionStep
    \/ SectionsReturn
    \/ Display

\* a document of pages, from the upload to what main shows
Spec == Init /\ [][Next]_vars

\* the zone rule on every block
SpecZone == InitZone /\ [][NextZone]_vars

\* the text stages on every sentence sequence
SpecText == InitText /\ [][NextText]_vars

----------------------------------------------------------------------------
(* Properties of detect_sections *)

\* extract_pdf_structure has returned, or main has read its result
Returned == pc \in {"returned", "displayed", "KeyError"}

\* the positions of the sentences of d that match a heading pattern
HeadingIndex(d) == {k \in 1..Len(d) : HeadingPatterns(d[k])}

\* the m-th smallest member of a set of positions
NthOf(S, m) == CHOOSE k \in S : Cardinality({x \in S : x <= k}) = m

\* the position of the first heading of d after position k, or the position
\* after the end of d
SectionEnd(d, k) ==
    IF \E x \in HeadingIndex(d) : x > k
    THEN CHOOSE x \in HeadingIndex(d) :
             x > k /\ \A y \in HeadingIndex(d) : y > k => x <= y
    ELSE Len(d) + 1

\* C1: detect_sections returns one section per heading-matching sentence, in
\* document order; its heading is that sentence and its content is the
\* sentences strictly between that heading and the next heading or the end of
\* the input (so: no heading, no section; what precedes the first heading is in
\* no section; a heading that follows a heading closes an empty section).
C1_OneSectionPerHeading ==
    (Returned /\ errors = 0) =>
        LET H == HeadingIndex(doc)
        IN  /\ Len(results.sections) = Cardinality(H)
            /\ \A m \in 1..Cardinality(H) :
                   LET k == NthOf(H, m)
                   IN  results.sections[m] =
                           [heading |-> doc[k],
                            content |-> SubSeq(doc, k + 1, SectionEnd(doc, k) - 1)]

\* a returned list of two sections, the first closed empty by the heading that
\* follows it, the second with content, after a sentence that precedes the
\* first heading
C1_Witness ==
    /\ pc = "returned"
    /\ Len(doc) = 4
    /\ ~HeadingPatterns(doc[1])
    /\ Len(results.sections) = 2
    /\ results.sections[1].content = <<>>
    /\ Len(results.sections[2].content) = 1

\* C2: on the sentences of scenario A detect_sections returns the section
\* "Chapter 1 Intro" with the content "This is body text." and the section
\* "Chapter 2 Methods" with the content "More text.".
C2_ScenarioASections ==
    (Returned /\ errors = 0 /\ doc = ScenarioA) =>
        results.sections =
            << [heading |-> ChapterOneIntro, content |-> <<BodyText>>],
               [heading |-> ChapterTwoMethods, content |-> <<MoreText>>] >>

\* the sections detect_sections holds: the closed ones and the open one, and
\* after its return the returned list
HeldSections ==
    IF Returned
    THEN results.sections
    ELSE sections \o (IF current_section # None THEN <<current_section>> ELSE <<>>)

\* how many sentences detect_sections has consumed
Scanned ==
    IF Returned THEN Len(doc) ELSE IF pc = "detect_sections" THEN n ELSE 0

\* the contents of a list of sections, one after the other
RECURSIVE FlatContent(_)
FlatContent(secs) ==
    IF secs = <<>> THEN <<>> ELSE Head(secs).content \o FlatContent(Tail(secs))

\* the sentences among the first m of d that match no heading pattern
IsBodySentence(t) == ~HeadingPatterns(t)
BodySentences(d, m) == SelectSeq(SubSeq(d, 1, m), IsBodySentence)

\* a is b with some of its entries left out: the entries of a can be given
\* positions of b that increase, each position used once
RECURSIVE IsSubsequence(_, _)
IsSubsequence(a, b) ==
    IF a = <<>> THEN TRUE
    ELSE IF b = <<>> THEN FALSE
    ELSE IF Head(a) = Head(b) THEN IsSubsequence(Tail(a), Tail(b))
    ELSE IsSubsequence(a, Tail(b))

C3_EachSentenceOnceInOrder ==
    /\ IsSubsequence(FlatContent(HeldSections), BodySentences(doc, Scanned))
    /\ Returned /\ errors = 0 => results.sections = sections

C3_ClosedSectionsFrozen ==
    \A k \in 1..Len(sections) : k <= Len(sections') /\ sections'[k] = sections[k]

\* C3: while detect_sections scans and in its output, the contents of the
\* sections, taken together, are sentences of the scanned input at increasing
\* positions, each position used at most once, none of them a heading; and a
\* section appended to the list is never modified afterwards.
C3_ContentInvariant ==
    [] C3_EachSentenceOnceInOrder /\ [][C3_ClosedSectionsFrozen]_vars

\* detect_sections in mid-scan: a closed section with content and an open
\* section with content
C3_Witness ==
    /\ pc = "detect_sections"
    /\ n = 4
    /\ Len(sections) = 1
    /\ Len(sections[1].content) = 1
    /\ current_section # None
    /\ Len(current_section.content) = 1

----------------------------------------------------------------------------
(* Properties of detect_toc *)

\* the lower-cased text of t matches a TOC pattern
IsTocSentence(t) == TocPatterns(Lower(t))

\* C5: detect_toc returns the sentences whose lower-cased text matches a TOC
\* pattern, each as its original text, in document order, duplicates retained.
C5_TocIsTheMatchingSubsequence ==
    (pc = "detect_sections" \/ (Returned /\ errors = 0)) =>
        results.toc = SelectSeq(doc, IsTocSentence)

\* a returned toc that holds a sentence twice, in its original case, matched
\* only by its lower-cased text, and leaves a sentence of the input out
C5_Witness ==
    /\ pc = "returned"
    /\ Len(results.toc) = 2
    /\ results.toc[1] = ChapterOneIntro
    /\ results.toc[2] = ChapterOneIntro
    /\ Len(doc) = 3

----------------------------------------------------------------------------
(* Properties of the paragraphs *)

\* the paragraphs have been built
ParagraphsBuilt ==
    pc \in {"detect_toc", "detect_sections"} \/ (Returned /\ errors = 0)

IsLongerThan20(t) == Len(t) > 20

\* the stripped texts of the sentences of d
Stripped(d) == [k \in 1..Len(d) |-> Strip(d[k])]

C9_CoreKeepsLongerThan20 ==
    ParagraphsBuilt => results.paragraphs = SelectSeq(Stripped(doc), IsLongerThan20)

C9_DisplayOnlyFilters ==
    (pc = "returned" /\ pc' = "displayed") =>
        /\ results' = results
        /\ min_len' \in 20..200
        /\ Len(filtered') <= Len(results.paragraphs)
        /\ IsSubsequence(filtered', results.paragraphs)
        /\ \A k \in 1..Len(results.paragraphs) :
               Len(results.paragraphs[k]) >= min_len' =>
                   \E m \in 1..Len(filtered') : filtered'[m] = results.paragraphs[k]
        /\ \A m \in 1..Len(filtered') : Len(filtered'[m]) >= min_len'

\* C9, as amended: the core keeps, in document order, the stripped text of the
\* sentences whose stripped text is longer than 20 characters and drops the
\* others; the threshold of the display changes only which of these
\* paragraphs are shown and leaves the analysis result unchanged.
C9_ParagraphsAmended ==
    [] C9_CoreKeepsLongerThan20 /\ [][C9_DisplayOnlyFilters]_vars

\* C9, as claimed: the paragraphs are the full sentence list, no sentence
\* dropped because of its length.
C9_ParagraphsAreAllSentences ==
    ParagraphsBuilt =>
        /\ Len(results.paragraphs) = Len(doc)
        /\ \A k \in 1..Len(doc) : results.paragraphs[k] \in {doc[k], Strip(doc[k])}

\* a display that shows one of two paragraphs, of a document of which the core
\* has dropped a sentence whose text is 22 characters long and 20 when stripped
C9_Witness ==
    /\ pc = "displayed"
    /\ min_len = 22
    /\ Len(results.paragraphs) = 2
    /\ Len(filtered) = 1
    /\ \E k \in 1..Len(doc) : doc[k] = UpperContents

----------------------------------------------------------------------------
(* Properties of the zone rule *)

\* C4: a block is recorded as a header iff its label is Title and its top is
\* below 0.15 * page_height; it is recorded as a footer iff it was not recorded
\* as a header and its bottom is above 0.85 * page_height; otherwise it is
\* recorded nowhere.  No block is added to both sets.
C4_ZoneRule ==
    [][ (pc = "blocks" /\ j' = j + 1) =>
            LET b == layout[j + 1]
                height == pdf.pages[i + 1].height
                header == b.type = "Title" /\ 100 * b.y_1 < 15 * height
                footer == ~header /\ 100 * b.y_2 > 85 * height
                H == results.headers.items
                F == results.footers.items
            IN  /\ results'.headers.items = (IF header THEN H \cup {b.text} ELSE H)
                /\ results'.footers.items = (IF footer THEN F \cup {b.text} ELSE F)
                /\ ~(results'.headers.items # H /\ results'.footers.items # F)
      ]_vars

\* two blocks classified: a title whose top is in the header zone and whose
\* bottom is in the footer zone, recorded as a header only, and a title whose
\* top is not in the header zone, recorded as a footer
C4_Witness ==
    /\ pc = "blocks"
    /\ j = 2
    /\ pdf.pages[1].height = 20
    /\ layout[1] = [type |-> "Title", y_1 |-> 2, y_2 |-> 18, text |-> "a"]
    /\ layout[2] = [type |-> "Title", y_1 |-> 3, y_2 |-> 18, text |-> "b"]
    /\ results.headers.items = {"a"}
    /\ results.footers.items = {"b"}

----------------------------------------------------------------------------
(* Properties of extract_pdf_structure *)

\* the blocks of the first m pages of p, each with the height of its page, in
\* the order of the iteration
RECURSIVE BlocksOf(_, _)
BlocksOf(p, m) ==
    IF m = 0
    THEN <<>>
    ELSE BlocksOf(p, m - 1)
         \o [k \in 1..Len(p.pages[m].layout) |->
                 [block |-> p.pages[m].layout[k], height |-> p.pages[m].height]]

\* a Title block whose top is in the top 15% of its page
InHeaderZone(e) == e.block.type = "Title" /\ 100 * e.block.y_1 < 15 * e.height

\* any other block whose bottom is in the bottom 15% of its page
InFooterZone(e) == ~InHeaderZone(e) /\ 100 * e.block.y_2 > 85 * e.height

\* the texts of a sequence of blocks
TextsOf(es) == [k \in 1..Len(es) |-> es[k].block.text]

\* the entries of q without the repetitions: each text at its first position
RECURSIVE FirstOccurrences(_)
FirstOccurrences(q) ==
    IF q = <<>>
    THEN <<>>
    ELSE LET front == FirstOccurrences(SubSeq(q, 1, Len(q) - 1))
         IN  IF q[Len(q)] \in Range(front) THEN front ELSE Append(front, q[Len(q)])

\* the header and the footer texts of the first min(5, N) pages, in the order
\* in which the iteration records them
RecordedHeaders(p) == TextsOf(SelectSeq(BlocksOf(p, Min(5, Len(p.pages))), InHeaderZone))
RecordedFooters(p) == TextsOf(SelectSeq(BlocksOf(p, Min(5, Len(p.pages))), InFooterZone))

\* no entry of q is repeated
NoRepeats(q) == \A a, b \in 1..Len(q) : q[a] = q[b] => a = b

\* C6, as amended: the headers sequence, and likewise the footers sequence,
\* of the result holds each distinct recorded block text exactly once, in an
\* order that is the set's iteration order and need not be the order of
\* recording.
C6_EachRecordedTextOnce ==
    (results.headers.type = "list" /\ results.footers.type = "list") =>
        /\ NoRepeats(results.headers.items)
        /\ Range(results.headers.items) = Range(RecordedHeaders(pdf))
        /\ NoRepeats(results.footers.items)
        /\ Range(results.footers.items) = Range(RecordedFooters(pdf))

\* C6, as claimed: the texts appear in the order in which the page and block
\* iteration first recorded them.
C6_InsertionOrder ==
    (results.headers.type = "list" /\ results.footers.type = "list") =>
        /\ results.headers.items = FirstOccurrences(RecordedHeaders(pdf))
        /\ results.footers.items = FirstOccurrences(RecordedFooters(pdf))

\* a result with two headers, one of them recorded on two pages
C6_Witness ==
    /\ Returned
    /\ errors = 0
    /\ Len(results.headers.items) = 2
    /\ Len(RecordedHeaders(pdf)) = 3
    /\ Len(results.footers.items) = 2

\* the results of a and b are equal
SameResults(a, b) ==
    /\ a.headers.type = b.headers.type
    /\ a.footers.type = b.footers.type
    /\ a = b

C7_UnpopulatedFieldsAreDefault ==
    /\ pc \in {"open", "metadata"} => SameResults(results, InitialResults)
    /\ pc \in {"model", "page_loop", "blocks"} =>
           results.headers.type = "set" /\ results.footers.type = "set"
    /\ pc \in {"model", "page_loop", "blocks", "text", "paragraphs"} =>
           results.paragraphs = <<>>
    /\ pc \in {"model", "page_loop", "blocks", "text", "paragraphs", "detect_toc"} =>
           results.toc = <<>>
    /\ pc \in {"model", "page_loop", "blocks", "text", "paragraphs", "detect_toc",
               "detect_sections"} =>
           results.sections = <<>>
    /\ errors <= 1

C7_FailureAborts ==
    /\ errors' # errors =>
           /\ errors = 0
           /\ errors' = 1
           /\ pc' = "returned"
           /\ SameResults(results', results)
    /\ errors = 1 =>
           /\ pc' \in {"returned", "displayed", "KeyError"}
           /\ SameResults(results', results)

\* C7: when a stage of extract_pdf_structure fails, no later stage runs, the
\* failure is reported once, the result returned holds what was populated
\* before the failure and the defaults of the fields not yet populated, and
\* nothing is retried.
C7_FailureKeepsPartialResult ==
    [] C7_UnpopulatedFieldsAreDefault /\ [][C7_FailureAborts]_vars

\* a result returned after layout detection failed on the second page: the
\* metadata and the headers of the first page, no paragraphs
C7_Witness ==
    /\ pc = "returned"
    /\ errors = 1
    /\ i = 1
    /\ results.metadata = Metadata(pdf)
    /\ results.headers.type = "set"
    /\ results.headers.items = {"Annual Report"}
    /\ results.paragraphs = <<>>
    /\ doc = <<>>

\* C8: every result handed to the display layer, on success and after a
\* failure at any stage, has metadata with pages, author and title, so the
\* reads main performs are defined.
C8_MetadataAlwaysDefined ==
    /\ Returned => {"pages", "author", "title"} \subseteq DOMAIN results.metadata
    /\ pc # "KeyError"

\* the sentences of all the pages of p
RECURSIVE AllSentences(_, _)
AllSentences(p, m) ==
    IF m = 0 THEN <<>> ELSE AllSentences(p, m - 1) \o p.pages[m].text

\* the texts results holds as headers and as footers, set or list
HeaderItems ==
    IF results.headers.type = "set"
    THEN results.headers.items
    ELSE Range(results.headers.items)

FooterItems ==
    IF results.footers.type = "set"
    THEN results.footers.items
    ELSE Range(results.footers.items)

\* how many entries of q satisfy Test
CountToc(q) == Len(SelectSeq(q, IsTocSentence))
CountLong(q) == Len(SelectSeq(Stripped(q), IsLongerThan20))

\* C10: only the blocks of the first min(5, N) pages, each judged by the
\* height of its own page, contribute to headers and footers, also while the
\* pages are visited; paragraphs, toc and sections are computed from the text
\* of all N pages.
C10_FirstFivePagesOnly ==
    LET all == AllSentences(pdf, Len(pdf.pages))
    IN  /\ HeaderItems \subseteq Range(RecordedHeaders(pdf))
        /\ FooterItems \subseteq Range(RecordedFooters(pdf))
        /\ pc \in {"page_loop", "blocks"} => i <= 5
        /\ results.headers.type = "list" =>
               /\ HeaderItems = Range(RecordedHeaders(pdf))
               /\ FooterItems = Range(RecordedFooters(pdf))
        /\ pc \in {"paragraphs", "detect_toc", "detect_sections"} => doc = all
        /\ (Returned /\ errors = 0) =>
               /\ doc = all
               /\ Len(results.paragraphs) = CountLong(all)
               /\ Len(results.toc) = CountToc(all)
               /\ Len(results.sections) = Cardinality(HeadingIndex(all))

\* a result for a document of six pages whose sixth page alone has a page
\* number at its bottom and text: the page number is no footer, the text is in
\* paragraphs, toc and sections
C10_Witness ==
    /\ pc = "returned"
    /\ errors = 0
    /\ Len(pdf.pages) = 6
    /\ \A k \in 1..5 : pdf.pages[k] = PageB
    /\ pdf.pages[6] = PageA
    /\ "Page 1" \notin FooterItems
    /\ "Summary" \notin HeaderItems
    /\ "Appendix" \in HeaderItems
    /\ Len(results.paragraphs) = 1
    /\ Len(results.toc) = 1
    /\ Len(results.sections) = 1

====
